---- MODULE Spec2Model ----
(***************************************************************************)
(* Model of oit/packages/image.py: ImageMetadata.__init__, clone_distgit,  *)
(* source_path and populate_distgit_dir.                                   *)
(*                                                                         *)
(* Strings are sequences of tokens (a separator such as "." or "/" is a    *)
(* token of its own), so that startswith, os.path.join and "%s/%s" are     *)
(* computed and not assumed.  A directory is a function from entry names   *)
(* to nodes; a node is a regular file (with its bytes) or a directory.     *)
(***************************************************************************)
EXTENDS Integers, Sequences, FiniteSets, TLC

VARIABLES
    config,         \* self.config: has_source, alias, path, dockerfile, repo_type
    name,           \* self.name
    type,           \* self.type
    qualified_name, \* self.qualified_name
    module_name,    \* the value of __name__ in image.py
    source_alias,   \* runtime.source_alias: registered alias -> source root
    user,           \* runtime.user
    distgit_branch, \* runtime.distgit_branch
    fs_dirs,        \* the paths for which os.path.isdir is true
    src_tree,       \* the content of the directory source_path() resolves to
    distgit,        \* the content of self.distgit_dir
    distgit0,       \* the content of self.distgit_dir before the first call
    after,          \* the content of self.distgit_dir after each call so far
    exec_log,       \* the commands run by the last clone_distgit, with exit codes
    ret,            \* the outcome of the last call: op, status, value
    sp_called       \* whether the last call evaluated source_path()

vars == <<config, name, type, qualified_name, module_name, source_alias, user,
          distgit_branch, fs_dirs, src_tree, distgit, distgit0, after,
          exec_log, ret, sp_called>>

-----------------------------------------------------------------------------
(* Bounds *)

\* populate_distgit_dir is called at most MaxRuns times in a behaviour
MaxRuns == 2

-----------------------------------------------------------------------------
(* Strings *)

\* model.Missing: the value of an attribute the configuration does not have
Missing == <<"<Missing>">>

\* None (runtime.user when no user was given)
None == <<"<None>">>

\* str.startswith
StartsWith(s, prefix) ==
    /\ Len(s) >= Len(prefix)
    /\ SubSeq(s, 1, Len(prefix)) = prefix

\* str.endswith
EndsWith(s, suffix) ==
    /\ Len(s) >= Len(suffix)
    /\ SubSeq(s, Len(s) - Len(suffix) + 1, Len(s)) = suffix

\* os.path.join(a, b) of posixpath
PathJoin(a, b) ==
    IF StartsWith(b, <<"/">>) THEN b
    ELSE IF a = <<>> \/ EndsWith(a, <<"/">>) THEN a \o b
    ELSE a \o <<"/">> \o b

-----------------------------------------------------------------------------
(* File trees *)

NoEnts == [n \in {} |-> n]

FileNode(bytes) == [kind |-> "file", data |-> bytes, ents |-> NoEnts]
DirNode(ents) == [kind |-> "dir", data |-> "", ents |-> ents]

IsFile(tree, n) == n \in DOMAIN tree /\ tree[n].kind = "file"
IsDir(tree, n) == n \in DOMAIN tree /\ tree[n].kind = "dir"

Restrict(tree, names) == [n \in names |-> tree[n]]
Without(tree, names) == Restrict(tree, DOMAIN tree \ names)
Put(tree, n, node) ==
    [m \in DOMAIN tree \cup {n} |-> IF m = n THEN node ELSE tree[m]]

-----------------------------------------------------------------------------
(* source_path *)

\* common.assert_dir(path, msg): passes when os.path.isdir(path), raises otherwise
assert_dir(path, dirs) == path \in dirs

\* source_path with the absent-alias and unregistered-alias checks exchanged
source_path_RegistryFirst(cfg, registry, dirs) ==
    IF cfg.alias \notin DOMAIN registry
    THEN [status |-> "IOError: alias not registered", value |-> None]
    ELSE IF cfg.alias = Missing
    THEN [status |-> "IOError: no source alias", value |-> None]
    ELSE LET path == IF cfg.path # Missing
                     THEN PathJoin(registry[cfg.alias], cfg.path)
                     ELSE registry[cfg.alias]
         IN  IF ~assert_dir(path, dirs)
             THEN [status |-> "IOError: not a directory", value |-> None]
             ELSE [status |-> "ok", value |-> path]

\* source_path that forgets the sub-path
source_path_NoSubPath(cfg, registry, dirs) ==
    IF cfg.alias = Missing
    THEN [status |-> "IOError: no source alias", value |-> None]
    ELSE IF cfg.alias \notin DOMAIN registry
    THEN [status |-> "IOError: alias not registered", value |-> None]
    ELSE IF ~assert_dir(registry[cfg.alias], dirs)
    THEN [status |-> "IOError: not a directory", value |-> None]
    ELSE [status |-> "ok", value |-> registry[cfg.alias]]

\* ImageMetadata.source_path: the outcome (status, returned path)
source_path(cfg, registry, dirs) ==
    LET alias == cfg.alias IN
    IF alias = Missing
    THEN [status |-> "IOError: no source alias", value |-> None]
    ELSE IF alias \notin DOMAIN registry
    THEN [status |-> "IOError: alias not registered", value |-> None]
    ELSE LET source_root == registry[alias]
             sub_path == cfg.path
             path == IF sub_path # Missing
                     THEN PathJoin(source_root, sub_path)
                     ELSE source_root
         IN  IF ~assert_dir(path, dirs)
             THEN [status |-> "IOError: not a directory", value |-> None]
             ELSE [status |-> "ok", value |-> path]

-----------------------------------------------------------------------------
(* populate_distgit_dir *)

\* a loop "for ent in os.listdir('.')" that removes the entries `victims` and
\* raises at the entries `bad`: os.listdir gives the entries in any order, so
\* when the loop raises, any set of the other victims was removed before
RemoveLoop(tree, victims, bad) ==
    IF bad = {}
    THEN {[ok |-> TRUE, tree |-> Without(tree, victims)]}
    ELSE {[ok |-> FALSE, tree |-> Without(tree, done)] :
              done \in SUBSET (victims \ bad)}

\* the entries the clean-up loop skips: hidden ones, and the special files
Preserved(ent) ==
    \/ StartsWith(ent, <<".">>)
    \/ ent \in {<<"additional-tags">>}

\* the clean-up loop: shutil.rmtree(ent) for every entry not skipped;
\* shutil.rmtree raises OSError on anything that is not a directory
SelectiveClean(tree) ==
    LET victims == {ent \in DOMAIN tree : ~Preserved(ent)}
    IN  RemoveLoop(tree, victims, {ent \in victims : tree[ent].kind # "dir"})

\* common.recursive_overwrite(src, dest) on two directories: every entry of
\* src is copied into dest, a file overwriting a file, a directory merged into
\* a directory (created when absent); a file meeting a directory, or a
\* directory meeting a file, raises.  The outcomes: (ok, dest afterwards).
RECURSIVE recursive_overwrite(_, _)
recursive_overwrite(src, dest) ==
    LET Entry(n) ==
            IF src[n].kind = "file"
            THEN IF IsDir(dest, n)
                 THEN {[ok |-> FALSE, at |-> Restrict(dest, {n})]}
                 ELSE {[ok |-> TRUE, at |-> (n :> FileNode(src[n].data))]}
            ELSE IF IsFile(dest, n)
                 THEN {[ok |-> FALSE, at |-> Restrict(dest, {n})]}
                 ELSE LET sub == IF n \in DOMAIN dest THEN dest[n].ents ELSE NoEnts
                      IN  {[ok |-> o.ok, at |-> (n :> DirNode(o.tree))] :
                              o \in recursive_overwrite(src[n].ents, sub)}
        Copies(n) == {o \in Entry(n) : o.ok}
        Copied(names) == [n \in names |-> (CHOOSE o \in Copies(n) : TRUE).at[n]]
        copyable == {n \in DOMAIN src : Copies(n) # {}}
    IN  IF copyable = DOMAIN src
        THEN {[ok |-> TRUE, tree |-> Copied(DOMAIN src) @@ dest]}
        ELSE UNION {
               UNION {
                 {[ok |-> FALSE, tree |-> o.at @@ Copied(done) @@ dest] :
                      done \in SUBSET (copyable \ {f})} :
                 o \in {x \in Entry(f) : ~x.ok}} :
               f \in DOMAIN src}

\* os.rename(a, b) in a directory: the outcome (ok, directory afterwards)
os_rename(tree, a, b) ==
    IF a \notin DOMAIN tree THEN [ok |-> FALSE, tree |-> tree]
    ELSE IF a = b THEN [ok |-> TRUE, tree |-> tree]
    ELSE IF b \notin DOMAIN tree
    THEN [ok |-> TRUE, tree |-> Put(Without(tree, {a}), b, tree[a])]
    ELSE IF \/ tree[a].kind = "file" /\ tree[b].kind = "file"
            \/ tree[a].kind = "dir" /\ tree[b].kind = "dir"
                                   /\ DOMAIN tree[b].ents = {}
    THEN [ok |-> TRUE, tree |-> Put(Without(tree, {a}), b, tree[a])]
    ELSE [ok |-> FALSE, tree |-> tree]

\* the Dockerfile named by content.source.dockerfile replaces "Dockerfile"
RenameDockerfile(tree, dockerfile_name) ==
    IF dockerfile_name # Missing /\ dockerfile_name # <<"Dockerfile">>
    THEN LET removed == IF IsFile(tree, <<"Dockerfile">>)
                        THEN Without(tree, {<<"Dockerfile">>})
                        ELSE tree
         IN  os_rename(removed, dockerfile_name, <<"Dockerilfe">>)
    ELSE [ok |-> TRUE, tree |-> tree]

\* the loop over Dockerfile.*: os.remove(ent), which raises on a directory,
\* and only when image.py is the program's entry module
RemoveExtraDockerfiles(tree, modname) ==
    LET victims == {ent \in DOMAIN tree :
                        /\ modname = "__main__"
                        /\ StartsWith(ent, <<"Dockerfile", ".">>)}
    IN  RemoveLoop(tree, victims, {ent \in victims : tree[ent].kind = "dir"})

\* "if self.config.content.source is not Missing" always taken
ContentSourceDefined_Always(cfg) == TRUE

\* self.config.content.source is not Missing
ContentSourceDefined(cfg) == cfg.has_source

\* the copy that leaves an entry the destination already has as it is
CopySource_KeepExisting(tree, cfg, registry, dirs, src) ==
    LET sp == source_path(cfg, registry, dirs) IN
    IF sp.status # "ok"
    THEN {[status |-> sp.status, tree |-> tree]}
    ELSE {[status |-> IF o.ok THEN "ok" ELSE "OSError: copy",
           tree |-> tree @@ o.tree] : o \in recursive_overwrite(src, tree)}

\* recursive_overwrite(self.source_path(), self.distgit_dir); src is the
\* content of the directory source_path() returns
CopySource(tree, cfg, registry, dirs, src) ==
    LET sp == source_path(cfg, registry, dirs) IN
    IF sp.status # "ok"
    THEN {[status |-> sp.status, tree |-> tree]}
    ELSE {[status |-> IF o.ok THEN "ok" ELSE "OSError: copy",
           tree |-> o.tree] : o \in recursive_overwrite(src, tree)}

\* ImageMetadata.populate_distgit_dir: the outcomes (status, the distgit
\* directory afterwards, whether source_path() was evaluated)
populate_distgit_dir(tree, cfg, registry, dirs, src, modname) ==
    IF ~ContentSourceDefined(cfg)
    THEN {[status |-> "ok", tree |-> tree, sp |-> FALSE]}
    ELSE UNION {
        IF ~c.ok
        THEN {[status |-> "OSError: rmtree", tree |-> c.tree, sp |-> FALSE]}
        ELSE UNION {
            IF w.status # "ok"
            THEN {[status |-> w.status, tree |-> w.tree, sp |-> TRUE]}
            ELSE LET r == RenameDockerfile(w.tree, cfg.dockerfile) IN
                 IF ~r.ok
                 THEN {[status |-> "OSError: rename", tree |-> r.tree, sp |-> TRUE]}
                 ELSE {[status |-> IF x.ok THEN "ok" ELSE "OSError: remove",
                        tree |-> x.tree, sp |-> TRUE] :
                           x \in RemoveExtraDockerfiles(r.tree, modname)} :
            w \in CopySource(c.tree, cfg, registry, dirs, src)} :
        c \in SelectiveClean(tree)}

-----------------------------------------------------------------------------
(* __init__ and clone_distgit *)

\* self.type: "rpms" unless repo.type is configured
ImageType(cfg) ==
    IF cfg.repo_type # Missing THEN cfg.repo_type ELSE <<"rpms">>

\* self.qualified_name = "%s/%s" % (self.type, name)
QualifiedName(t, n) == t \o <<"/">> \o n

\* the exit codes of rhpkg
ExitCodes == {0, 1, 128}

\* common.assert_exec(runtime, cmd_list): raises unless the command exits with zero
assert_exec(rc) == rc = 0

\* the rhpkg clone command line
CloneCommand ==
    <<<<"rhpkg">>>>
        \o (IF user # None THEN <<<<"--user=">> \o user>> ELSE <<>>)
        \o <<<<"clone">>, qualified_name>>

\* the rhpkg switch-branch command line
SwitchBranchCommand == <<<<"rhpkg">>, <<"switch-branch">>, distgit_branch>>

-----------------------------------------------------------------------------
(* Operations *)

Populate ==
    /\ Len(after) < MaxRuns
    /\ \E o \in populate_distgit_dir(distgit, config, source_alias, fs_dirs,
                                     src_tree, module_name) :
          /\ distgit' = o.tree
          /\ after' = Append(after, [status |-> o.status, tree |-> o.tree])
          /\ ret' = [op |-> "populate_distgit_dir", status |-> o.status,
                     value |-> None]
          /\ sp_called' = o.sp
    /\ UNCHANGED <<config, name, type, qualified_name, module_name,
                   source_alias, user, distgit_branch, fs_dirs, src_tree,
                   distgit0, exec_log>>

SourcePath ==
    /\ ret.op = "none"
    /\ LET sp == source_path(config, source_alias, fs_dirs) IN
          ret' = [op |-> "source_path", status |-> sp.status, value |-> sp.value]
    /\ sp_called' = TRUE
    /\ UNCHANGED <<config, name, type, qualified_name, module_name,
                   source_alias, user, distgit_branch, fs_dirs, src_tree,
                   distgit, distgit0, after, exec_log>>

\* clone_distgit that goes on to switch-branch whatever clone's exit code
clone_distgit_IgnoreCloneExit ==
    /\ \E rc1 \in ExitCodes, rc2 \in ExitCodes :
          /\ exec_log' = <<[argv |-> CloneCommand, rc |-> rc1],
                           [argv |-> SwitchBranchCommand, rc |-> rc2]>>
          /\ ret' = [op |-> "clone_distgit",
                     status |-> IF assert_exec(rc2) THEN "ok" ELSE "ExecError",
                     value |-> None]
    /\ sp_called' = FALSE
    /\ UNCHANGED <<config, name, type, qualified_name, module_name,
                   source_alias, user, distgit_branch, fs_dirs, src_tree,
                   distgit, distgit0, after>>

clone_distgit ==
    /\ \E rc1 \in ExitCodes :
          IF ~assert_exec(rc1)
          THEN /\ exec_log' = <<[argv |-> CloneCommand, rc |-> rc1]>>
               /\ ret' = [op |-> "clone_distgit", status |-> "ExecError",
                          value |-> None]
          ELSE \E rc2 \in ExitCodes :
               /\ exec_log' = <<[argv |-> CloneCommand, rc |-> rc1],
                                [argv |-> SwitchBranchCommand, rc |-> rc2]>>
               /\ ret' = [op |-> "clone_distgit",
                          status |-> IF assert_exec(rc2) THEN "ok" ELSE "ExecError",
                          value |-> None]
    /\ sp_called' = FALSE
    /\ UNCHANGED <<config, name, type, qualified_name, module_name,
                   source_alias, user, distgit_branch, fs_dirs, src_tree,
                   distgit, distgit0, after>>

-----------------------------------------------------------------------------
(* Initial states *)

Config(has_source, alias, path, dockerfile, repo_type) ==
    [has_source |-> has_source, alias |-> alias, path |-> path,
     dockerfile |-> dockerfile, repo_type |-> repo_type]

NoCall == [op |-> "none", status |-> "none", value |-> None]

SourceRoot == <<"/", "src">>
Registry == (<<"ose">> :> SourceRoot)

\* the distgit directory as cloned: any of these entries
DistgitEntries ==
    (<<".", "git">> :> DirNode(<<"HEAD">> :> FileNode("c1")))
    @@ (<<".", "gitignore">> :> FileNode("c1"))
    @@ (<<"additional-tags">> :> FileNode("c1"))
    @@ (<<"old-file", ".", "txt">> :> FileNode("c1"))
    @@ (<<"old-dir">> :> DirNode(<<"f">> :> FileNode("c1")))

\* the source directory: any of these entries
SourceEntries ==
    (<<"new-file", ".", "txt">> :> FileNode("c2"))
    @@ (<<".", "gitignore">> :> FileNode("c2"))
    @@ (<<"additional-tags">> :> FileNode("c2"))
    @@ (<<".", "git">> :> FileNode("c2"))
    @@ (<<"Dockerfile">> :> FileNode("c1"))
    @@ (<<"Dockerfile", ".", "rhel">> :> FileNode("c2"))
    @@ (<<"docs">> :> DirNode(<<"readme">> :> FileNode("c2")))

Trees(entries) == {Restrict(entries, S) : S \in SUBSET DOMAIN entries}

PopulateConfigs ==
    {Config(FALSE, Missing, Missing, Missing, Missing)}
    \cup {Config(TRUE, a, p, d, Missing) :
            a \in {Missing, <<"ose">>, <<"unknown">>},
            p \in {Missing, <<"sub">>},
            d \in {Missing, <<"Dockerfile">>, <<"Dockerfile", ".", "rhel">>}}

InitPopulate ==
    /\ config \in PopulateConfigs
    /\ name = <<"img">>
    /\ type = ImageType(config)
    /\ qualified_name = QualifiedName(type, name)
    /\ module_name \in {"__main__", "image"}
    /\ source_alias = Registry
    /\ user = None
    /\ distgit_branch = <<"rhaos">>
    /\ fs_dirs \in {{}, {SourceRoot, PathJoin(SourceRoot, <<"sub">>)}}
    /\ src_tree \in IF source_path(config, source_alias, fs_dirs).status = "ok"
                    THEN Trees(SourceEntries)
                    ELSE {NoEnts}
    /\ distgit \in Trees(DistgitEntries)
    /\ distgit0 = distgit
    /\ after = <<>>
    /\ exec_log = <<>>
    /\ ret = NoCall
    /\ sp_called = FALSE

NextPopulate == Populate

SpecPopulate == InitPopulate /\ [][NextPopulate]_vars

SourcePathConfigs ==
    {Config(TRUE, a, p, Missing, Missing) :
        a \in {Missing, <<"ose">>, <<"unknown">>},
        p \in {Missing, <<"sub">>, <<"/", "abs">>}}

InitSourcePath ==
    /\ config \in SourcePathConfigs
    /\ name = <<"img">>
    /\ type = ImageType(config)
    /\ qualified_name = QualifiedName(type, name)
    /\ module_name = "image"
    /\ source_alias \in {Registry, (<<"ose">> :> SourceRoot \o <<"/">>), NoEnts}
    /\ user = None
    /\ distgit_branch = <<"rhaos">>
    /\ fs_dirs \in SUBSET {SourceRoot, SourceRoot \o <<"/">>,
                           SourceRoot \o <<"/", "sub">>, <<"/", "abs">>}
    /\ src_tree = NoEnts
    /\ distgit = DistgitEntries
    /\ distgit0 = distgit
    /\ after = <<>>
    /\ exec_log = <<>>
    /\ ret = NoCall
    /\ sp_called = FALSE

NextSourcePath == SourcePath

SpecSourcePath == InitSourcePath /\ [][NextSourcePath]_vars

InitClone ==
    /\ config \in {Config(FALSE, Missing, Missing, Missing, t) :
                      t \in {Missing, <<"rpms">>, <<"apbs">>}}
    /\ name \in {<<"img">>, <<"ose-base">>}
    /\ type = ImageType(config)
    /\ qualified_name = QualifiedName(type, name)
    /\ module_name = "image"
    /\ source_alias = Registry
    /\ user \in {None, <<"alice">>}
    /\ distgit_branch \in {<<"rhaos">>, <<"master">>}
    /\ fs_dirs = {}
    /\ src_tree = NoEnts
    /\ distgit = NoEnts
    /\ distgit0 = distgit
    /\ after = <<>>
    /\ exec_log = <<>>
    /\ ret = NoCall
    /\ sp_called = FALSE

NextClone == clone_distgit

SpecClone == InitClone /\ [][NextClone]_vars

-----------------------------------------------------------------------------
(* Properties of populate_distgit_dir (SpecPopulate) *)

\* the regular files under a directory: <<relative path, bytes>>
RECURSIVE Files(_)
Files(tree) ==
    UNION {IF tree[n].kind = "file"
           THEN {<<<<n>>, tree[n].data>>}
           ELSE {<<<<n>> \o f[1], f[2]>> : f \in Files(tree[n].ents)} :
           n \in DOMAIN tree}

HiddenOrSpecial(n) == StartsWith(n, <<".">>) \/ n = <<"additional-tags">>
DockerfileVariant(n) == StartsWith(n, <<"Dockerfile", ".">>)

Called == Len(after) >= 1
Completed == Called /\ after[1].status = "ok"
SourceResolves == source_path(config, source_alias, fs_dirs).status = "ok"

\* C1: after populate_distgit_dir with content.source defined, hidden entries
\* and additional-tags are still there, every other old entry the source does
\* not provide (a regular file or a directory) is gone, and every source entry
\* is there.  Stated for the configurations in which no Dockerfile is renamed
\* or removed (content.source.dockerfile unset, no Dockerfile.* in the source):
\* there the clean-up must not raise, and a call that completes must leave the
\* directory as described.
C1_SelectiveClean ==
    (/\ Called
     /\ config.has_source
     /\ SourceResolves
     /\ config.dockerfile = Missing
     /\ \A n \in DOMAIN src_tree : ~DockerfileVariant(n))
    => /\ after[1].status # "OSError: rmtree"
       /\ after[1].status = "ok" =>
            /\ \A n \in DOMAIN distgit0 :
                 HiddenOrSpecial(n) => n \in DOMAIN after[1].tree
            /\ \A n \in DOMAIN distgit0 :
                 ~HiddenOrSpecial(n) /\ n \notin DOMAIN src_tree
                     => n \notin DOMAIN after[1].tree
            /\ \A n \in DOMAIN src_tree : n \in DOMAIN after[1].tree

\* C2: with content.source.dockerfile = D, D # "Dockerfile", and a file D in
\* the source, a completed populate_distgit_dir leaves a file "Dockerfile"
\* with the bytes of the source's D, and no entry D.
C2_DockerfileRenamed ==
    (/\ Completed
     /\ config.has_source
     /\ config.dockerfile \notin {Missing, <<"Dockerfile">>}
     /\ IsFile(src_tree, config.dockerfile))
    => /\ IsFile(after[1].tree, <<"Dockerfile">>)
       /\ after[1].tree[<<"Dockerfile">>].data = src_tree[config.dockerfile].data
       /\ config.dockerfile \notin DOMAIN after[1].tree

\* C3: with content.source defined, a completed populate_distgit_dir leaves no
\* direct entry whose name starts with "Dockerfile.".
C3_NoDockerfileVariants ==
    (Completed /\ config.has_source)
    => \A n \in DOMAIN after[1].tree : ~DockerfileVariant(n)

\* C4: without content.source, populate_distgit_dir changes nothing in the
\* distgit directory, completes, and does not evaluate source_path().
C4_NoSourceNoOp ==
    (Called /\ ~config.has_source)
    => /\ \A k \in 1..Len(after) :
            after[k].status = "ok" /\ after[k].tree = distgit0
       /\ distgit = distgit0
       /\ ~sp_called

C4_Witness ==
    /\ Called
    /\ ~config.has_source
    /\ IsFile(distgit0, <<"old-file", ".", "txt">>)
    /\ IsDir(distgit0, <<"old-dir">>)

\* C7: a second populate_distgit_dir after a completed first one, source and
\* configuration unchanged, completes and leaves the tree the first one left.
C7_Idempotent ==
    (Len(after) >= 2 /\ after[1].status = "ok")
    => /\ after[2].status = "ok"
       /\ after[2].tree = after[1].tree

\* C9: with content.source defined and content.source.dockerfile unset, after
\* a completed populate_distgit_dir every file of the source whose path does
\* not start with "Dockerfile." is in the distgit directory at the same path
\* with the source's bytes, whatever was preserved there before.
C9_OverwriteWins ==
    (Completed /\ config.has_source /\ config.dockerfile = Missing)
    => \A f \in Files(src_tree) :
          ~DockerfileVariant(f[1][1]) => f \in Files(after[1].tree)

C9_Witness ==
    /\ Completed
    /\ config.has_source
    /\ config.dockerfile = Missing
    /\ IsFile(distgit0, <<".", "gitignore">>)
    /\ IsFile(src_tree, <<".", "gitignore">>)
    /\ distgit0[<<".", "gitignore">>].data # src_tree[<<".", "gitignore">>].data
    /\ after[1].tree[<<".", "gitignore">>] = src_tree[<<".", "gitignore">>]
    /\ IsFile(distgit0, <<"additional-tags">>)
    /\ IsFile(src_tree, <<"additional-tags">>)
    /\ IsDir(src_tree, <<"docs">>)
    /\ after[1].tree[<<"additional-tags">>] = src_tree[<<"additional-tags">>]
    /\ <<<<<<"docs">>, <<"readme">>>>, "c2">> \in Files(after[1].tree)

\* C10: with content.source defined and a source path that does not resolve
\* (alias absent, alias unregistered, not a directory), populate_distgit_dir
\* fails with that error, leaving exactly the hidden entries and
\* additional-tags of the directory, unchanged, and nothing copied.
C10_CleanBeforeResolve ==
    (Called /\ config.has_source /\ ~SourceResolves)
    => /\ after[1].status = source_path(config, source_alias, fs_dirs).status
       /\ after[1].tree =
            Restrict(distgit0, {n \in DOMAIN distgit0 : HiddenOrSpecial(n)})

-----------------------------------------------------------------------------
(* Properties of source_path (SpecSourcePath) *)

Returned == ret.op = "source_path"
AliasRegistered == config.alias # Missing /\ config.alias \in DOMAIN source_alias

\* C5: source_path fails, returns no path and changes nothing on disk when
\* content.source.alias is absent or not registered; an absent alias is
\* reported as absent, whatever content.source.path is.
C5_AliasErrors ==
    (Returned /\ ~AliasRegistered)
    => /\ ret.status = IF config.alias = Missing
                       THEN "IOError: no source alias"
                       ELSE "IOError: alias not registered"
       /\ ret.value = None
       /\ distgit = distgit0

C5_Witness ==
    /\ Returned
    /\ config.alias = Missing
    /\ config.path # Missing
    /\ ret.status = "IOError: no source alias"

\* root/sub-path: the root, one separator, the sub-path
RootSlashSub(root, sub) ==
    (IF EndsWith(root, <<"/">>) THEN SubSeq(root, 1, Len(root) - 1) ELSE root)
        \o <<"/">> \o sub

-----------------------------------------------------------------------------
(* Properties of clone_distgit (SpecClone) *)

IsClone(e) ==
    /\ Len(e.argv) >= 3
    /\ e.argv[1] = <<"rhpkg">>
    /\ e.argv[Len(e.argv) - 1] = <<"clone">>
    /\ e.argv[Len(e.argv)] =
         (IF config.repo_type = Missing THEN <<"rpms">> ELSE config.repo_type)
             \o <<"/">> \o name

IsSwitchBranch(e) ==
    /\ Len(e.argv) >= 2
    /\ e.argv[2] = <<"switch-branch">>

\* C8: clone_distgit runs "switch-branch <distgit_branch>" only right after
\* "clone <repo.type or rpms>/<name>" exited with zero; when clone exits with
\* anything else the call fails and switch-branch is not run.
C8_SwitchOnlyAfterClone ==
    ret.op = "clone_distgit"
    => /\ Len(exec_log) >= 1
       /\ IsClone(exec_log[1])
       /\ \A i \in 1..Len(exec_log) :
            IsSwitchBranch(exec_log[i])
                => /\ i > 1
                   /\ IsClone(exec_log[i - 1])
                   /\ exec_log[i - 1].rc = 0
                   /\ exec_log[i].argv[3] = distgit_branch
       /\ exec_log[1].rc # 0
            => /\ ret.status = "ExecError"
               /\ \A i \in 1..Len(exec_log) : ~IsSwitchBranch(exec_log[i])
       /\ exec_log[1].rc = 0
            => /\ Len(exec_log) = 2
               /\ IsSwitchBranch(exec_log[2])

C8_Witness ==
    /\ ret.op = "clone_distgit"
    /\ config.repo_type = Missing
    /\ user # None
    /\ Len(exec_log) = 2
    /\ IsSwitchBranch(exec_log[2])
    /\ exec_log[1].rc = 0

====
